---- MODULE Spec2Model ----
(***************************************************************************)
(* State-machine model of playground/train.py: the PPO training control    *)
(* loop (main), its configuration (configs) and the collaborators it       *)
(* drives (vectorized environments, rollout buffer, agent, checkpoint      *)
(* store, metrics logger), each seen through the calls main makes.         *)
(***************************************************************************)
EXTENDS Integers, Sequences, FiniteSets, TLC

(* ------------------------------ bounds --------------------------------- *)
MaxFrames == 4
MaxEpisodeSteps == 3
MaxProcesses == 2
MaxMiniBatchSize == 2
MaxSaveEvery == 3
MaxTestEpisodeSteps == 2
MaxTests == 1

(* Episode returns the Monitor wrapper can report, on both sides of the    *)
(* two thresholds of main.                                                 *)
Rewards == {800, 1200}
TestRewards == {500}

(* ------------------------- program constants --------------------------- *)
CurriculumThreshold == 900
SpecialistThreshold == 1000

(* A Python name that has not been bound yet. *)
Unbound == -1
(* An info dict without the key "episode". *)
NoEpisode == 0

VARIABLES
  args,                 \* the configuration (configs, init)
  pc,                   \* position of main
  num_updates,          \* line 170
  j,                    \* loop variable of line 180
  step,                 \* loop variable of lines 193 and 273
  episode_rewards,      \* deque(maxlen=num_processes), line 168
  test_episode_rewards, \* deque(maxlen=num_tests), line 169
  curriculum,           \* line 105
  specialist,           \* line 109
  envs,                 \* what the training Orchestrator was last told
  next_checkpoint,      \* line 173
  max_ep_reward,        \* line 174, as the exact fraction s/n; n = 0 is -inf
  frame_count,          \* line 307
  model_name,           \* lines 311, 314, 333
  actor_critic,         \* live parameters, as the number of agent.update calls
  ac_state_dict,        \* line 191
  rollouts,             \* the rollout buffer: write cursor, observation rows, row read for bootstrap
  store,                \* checkpoint store: name -> [writes, model]
  logged,               \* records handed to logger.log_epoch
  events,               \* calls made in the current update, in order
  written,              \* artifact names written in the current update, in order
  stats_calls,          \* np.median / np.mean calls of the current update: <<line, len>>
  best_means,           \* the means recorded at the "best" writes so far
  totals,               \* run totals: env steps, buffer inserts, agent updates
  optimizer_lr,         \* learning rate held by agent.optimizer, line 189
  current_obs,          \* line 152, the observation as the number of the env step that made it
  calls                 \* act / get_value / set_optimizer_lr calls of the current update

vars == <<args, pc, num_updates, j, step, episode_rewards, test_episode_rewards,
          curriculum, specialist, envs, next_checkpoint, max_ep_reward,
          frame_count, model_name, actor_critic, ac_state_dict, rollouts,
          store, logged, events, written, stats_calls, best_means, totals,
          optimizer_lr, current_obs, calls>>

(* ----------------------------- helpers --------------------------------- *)
RECURSIVE Sum(_)
Sum(s) == IF s = <<>> THEN 0 ELSE Head(s) + Sum(Tail(s))

Range(s) == {s[i] : i \in 1..Len(s)}

(* k-th smallest element of a non-empty sequence (np.median sorts). *)
KthSmallest(s, k) ==
  CHOOSE v \in Range(s) :
    /\ Cardinality({i \in 1..Len(s) : s[i] < v}) < k
    /\ Cardinality({i \in 1..Len(s) : s[i] <= v}) >= k

(* np.median(h) > t. Of an empty h np.median is nan, and nan > t is False. *)
MedianGT(h, t) ==
  /\ Len(h) > 0
  /\ IF Len(h) % 2 = 1
       THEN KthSmallest(h, (Len(h) + 1) \div 2) > t
       ELSE KthSmallest(h, Len(h) \div 2) + KthSmallest(h, Len(h) \div 2 + 1) > 2 * t

(* np.mean(h) > t. Of an empty h np.mean is nan, and nan > t is False. *)
MeanGT(h, t) == Len(h) > 0 /\ Sum(h) > t * Len(h)

(* np.mean(h), kept exact as sum over count. *)
Mean(h) == [s |-> Sum(h), n |-> Len(h)]
NegInf == [s |-> 0, n |-> 0]

(* a > b for two means; anything defined is above -inf, nan is above nothing. *)
FracGT(a, b) ==
  /\ a.n > 0
  /\ (b.n = 0 \/ a.s * b.n > b.s * a.n)

(* deque.append with maxlen: the oldest entry falls out when full. *)
DequeAppend(d, x, maxlen) ==
  IF maxlen = 0 THEN d
  ELSE IF Len(d) >= maxlen THEN Append(Tail(d), x) ELSE Append(d, x)

(* Lines 245-252 and 283-288: in worker order, append the reward of every  *)
(* info that carries the key "episode".                                    *)
RECURSIVE AppendEpisodes(_, _, _, _)
AppendEpisodes(d, infos, p, maxlen) ==
  IF p > Len(infos) THEN d
  ELSE AppendEpisodes(
         IF infos[p] # NoEpisode THEN DequeAppend(d, infos[p], maxlen) ELSE d,
         infos, p + 1, maxlen)

(* --------------------------- configuration ----------------------------- *)
(* configs, line 54 *)
NumSteps(episode_steps, num_processes) == episode_steps \div num_processes

(* configs, line 56 *)
NumMiniBatch(episode_steps, mini_batch_size) == episode_steps \div mini_batch_size

(* lr_decay_type, lines 182-187: "linear", "exponential", or anything else *)
(* ("constant" stands for every other value).                              *)
LrDecayTypes == {"linear", "exponential", "constant"}

(* The configurations of the model: the sampling parameters derived as in  *)
(* configs, with at least one step per rollout and one minibatch.          *)
Configs ==
  { [ num_frames        |-> f,
      num_processes     |-> p,
      num_steps         |-> NumSteps(es, p),
      num_mini_batch    |-> NumMiniBatch(es, mbs),
      num_tests         |-> nt,
      save_every        |-> se,
      save_dir          |-> sd,
      use_curriculum    |-> uc,
      use_specialist    |-> us,
      max_episode_steps |-> mes,
      lr_decay_type     |-> dt ] :
      f \in 0..MaxFrames, es \in 1..MaxEpisodeSteps,
      p \in 1..MaxProcesses, mbs \in 1..MaxMiniBatchSize,
      nt \in 1..MaxTests, se \in 1..MaxSaveEvery, sd \in {"", "models"},
      uc \in BOOLEAN, us \in BOOLEAN, mes \in {MaxTestEpisodeSteps},
      dt \in LrDecayTypes }

(* Mutant: the division by the worker count is left out. *)
NumUpdatesPerWorker(num_frames, num_steps, num_processes) ==
  num_frames \div num_steps

(* line 170 *)
NumUpdates(num_frames, num_steps, num_processes) ==
  (num_frames \div num_steps) \div num_processes

(* Mutant: the curriculum test is moved behind rollouts.after_update().    *)
FollowsCurriculumLast(l) ==
  CASE l = "schedule_lr"  -> "snapshot"
    [] l = "snapshot"     -> "collect"
    [] l = "collect"      -> "test_reset"
    [] l = "test_reset"   -> "evaluate"
    [] l = "evaluate"     -> "advantage"
    [] l = "advantage"    -> "optimize"
    [] l = "optimize"     -> "after_update"
    [] l = "after_update" -> "curriculum"
    [] l = "curriculum"   -> "model_name"
    [] l = "model_name"   -> "specialist"
    [] l = "specialist"   -> "save_model"
    [] l = "save_model"   -> "save_best"
    [] l = "save_best"    -> "log"
    [] l = "log"          -> "loop_head"

(* Mutant: agent.update runs before the test rollout. *)
FollowsOptimizeFirst(l) ==
  CASE l = "schedule_lr"  -> "snapshot"
    [] l = "snapshot"     -> "collect"
    [] l = "collect"      -> "advantage"
    [] l = "advantage"    -> "optimize"
    [] l = "optimize"     -> "after_update"
    [] l = "after_update" -> "test_reset"
    [] l = "test_reset"   -> "evaluate"
    [] l = "evaluate"     -> "curriculum"
    [] l = "curriculum"   -> "model_name"
    [] l = "model_name"   -> "specialist"
    [] l = "specialist"   -> "save_model"
    [] l = "save_model"   -> "save_best"
    [] l = "save_best"    -> "log"
    [] l = "log"          -> "loop_head"

(* The statement that follows each statement of the loop body, lines       *)
(* 182-351 in program order.                                               *)
Follows(l) ==
  CASE l = "schedule_lr"  -> "snapshot"
    [] l = "snapshot"     -> "collect"
    [] l = "collect"      -> "test_reset"
    [] l = "test_reset"   -> "evaluate"
    [] l = "evaluate"     -> "curriculum"
    [] l = "curriculum"   -> "advantage"
    [] l = "advantage"    -> "optimize"
    [] l = "optimize"     -> "after_update"
    [] l = "after_update" -> "model_name"
    [] l = "model_name"   -> "specialist"
    [] l = "specialist"   -> "save_model"
    [] l = "save_model"   -> "save_best"
    [] l = "save_best"    -> "log"
    [] l = "log"          -> "loop_head"

(* Mutant: the loops run one iteration too many. *)
InRangeInclusive(i, n) == i <= n

(* range(n) still has the index i to yield: lines 180, 193, 273 *)
InRange(i, n) == i < n

(* rollouts.observations[-1]: the buffer holds num_steps + 1 rows, line 298 *)
LastRow(num_steps) == num_steps

(* line 291 *)
CurriculumDue(use_curriculum, h) ==
  use_curriculum /\ MedianGT(h, CurriculumThreshold)

(* Mutant: the level skips one. *)
NextCurriculumSkip(c) == c + 2

(* lines 292-294 *)
NextCurriculum(c) == c + 1

(* line 307 *)
FrameCount(jj, num_steps, num_processes) == (jj + 1) * num_steps * num_processes

(* lines 308-310 *)
CheckpointDue(fc, nc, jj, nu, save_dir) ==
  (fc >= nc \/ jj = nu - 1) /\ save_dir # ""

(* Mutant: the threshold is not advanced. *)
NextCheckpointStays(nc, save_every) == nc

(* line 312 *)
NextCheckpoint(nc, save_every) == nc + save_every

(* line 321 *)
SpecialistDue(use_specialist, h) ==
  use_specialist /\ MeanGT(h, SpecialistThreshold)

(* Mutant: the index is not advanced. *)
NextSpecialistStays(s) == s

(* line 327 *)
NextSpecialist(s) == s + 1

(* Mutant: a mean equal to the recorded maximum counts as an improvement. *)
BestDueOnTie(h, best) == Len(h) > 1 /\ ~FracGT(best, Mean(h))

(* line 332 *)
BestDue(h, best) == Len(h) > 1 /\ FracGT(Mean(h), best)

(* line 337 *)
LogDue(h) == Len(h) > 1

(* Mutant: the record carries the loop index itself. *)
LogRecordZeroBased(jj, num_processes, num_steps) ==
  [iter |-> jj, total_num_steps |-> jj * num_processes * num_steps]

(* lines 339-343: the update index and the frame total of the record *)
LogRecord(jj, num_processes, num_steps) ==
  [iter |-> jj + 1, total_num_steps |-> (jj + 1) * num_processes * num_steps]

(* Mutant: the decay type is not looked at. *)
ScheduledLrAlwaysExponential(decay_type, jj) ==
  [schedule |-> "exponential_decay", epoch |-> jj]

(* Lines 182-187: the scheduled rate, as the schedule applied and the      *)
(* update index handed to it; the constant rate takes no index.            *)
ScheduledLr(decay_type, jj) ==
  CASE decay_type = "linear"      -> [schedule |-> "linear_decay", epoch |-> jj]
    [] decay_type = "exponential" -> [schedule |-> "exponential_decay", epoch |-> jj]
    [] OTHER                      -> [schedule |-> "args.lr", epoch |-> Unbound]

(* Mutant: the copy of line 191 is what gets saved. *)
SaveModelValueSnapshot(live, snapshot) == snapshot

(* Lines 317-319 and 323-325: the object handed to torch.save is the live  *)
(* actor_critic (under cuda a copy of it made at this point), not the      *)
(* ac_state_dict of line 191.                                              *)
SaveModelValue(live, snapshot) == live

(* Mutant: current_obs keeps what it held. *)
InsertedObsStale(old_obs, new_obs) == old_obs

(* Lines 257-259: current_obs takes the new observation, then is inserted. *)
InsertedObs(old_obs, new_obs) == new_obs

(* Mutant: the test rollout samples its actions. *)
EvalSampled == FALSE

(* Line 277: the evaluation acts with deterministic=True. *)
EvalDeterministic == TRUE

(* A call of the policy or the optimizer, with what it reads. *)
Call(name, env, deterministic, params, obs, at) ==
  [call |-> name, env |-> env, deterministic |-> deterministic,
   params |-> params, obs |-> obs, at |-> at]

(* RolloutStorage(num_steps, ...): num_steps + 1 observation rows, the     *)
(* write cursor at 0.                                                      *)
NewRollouts(num_steps) ==
  [step |-> 0, next_value_row |-> Unbound,
   obs |-> [r \in 1..(num_steps + 1) |-> Unbound]]

(* rollouts.observations[row], rows counted from 0 *)
ObsRow(r, row) == r.obs[row + 1]

(* rollouts.insert: the observation goes to row cursor + 1, the cursor     *)
(* wraps modulo num_steps.                                                 *)
Insert(r, obs, num_steps) ==
  [r EXCEPT !.obs[r.step + 2] = obs, !.step = (r.step + 1) % num_steps]

(* rollouts.after_update: row H is copied into row 0. *)
AfterUpdateRows(r) == [r EXCEPT !.obs[1] = r.obs[Len(r.obs)]]

(* Artifact names, lines 311, 314, 322, 333. *)
MilestoneName(t) == <<"milestone", t>>
LatestName == <<"latest", 0>>
BestName == <<"best", 0>>
SpecialistName(k) == <<"specialist", k>>

(* torch.save(model, path): the artifact of that name now holds model. *)
Saved(st, name, model) ==
  [n \in DOMAIN st \cup {name} |->
     IF n = name
       THEN [writes |-> (IF name \in DOMAIN st THEN st[name].writes ELSE 0) + 1,
             model  |-> model]
       ELSE st[n]]

EmptyStore == [n \in {} |-> n]

(* Line 142: the rate the optimizer is constructed with, before line 189   *)
(* first replaces it.                                                      *)
ConstructedLr == [schedule |-> "ppo_params", epoch |-> Unbound]

(* ------------------------------- Init ---------------------------------- *)
InitWith(configs) ==
  /\ args \in configs
  /\ args.num_steps >= 1
  /\ args.num_mini_batch >= 1
  /\ pc = "start"
  /\ num_updates = Unbound
  /\ j = Unbound
  /\ step = Unbound
  /\ episode_rewards = <<>>
  /\ test_episode_rewards = <<>>
  /\ curriculum = Unbound
  /\ specialist = Unbound
  /\ envs = [curriculum |-> Unbound, specialist |-> Unbound]
  /\ next_checkpoint = Unbound
  /\ max_ep_reward = NegInf
  /\ frame_count = Unbound
  /\ model_name = LatestName
  /\ actor_critic = 0
  /\ ac_state_dict = Unbound
  /\ rollouts = [step |-> 0, next_value_row |-> Unbound, obs |-> <<>>]
  /\ store = EmptyStore
  /\ logged = <<>>
  /\ events = <<>>
  /\ written = <<>>
  /\ stats_calls = {}
  /\ best_means = {}
  /\ totals = [env_steps |-> 0, inserts |-> 0, updates |-> 0]
  /\ optimizer_lr = ConstructedLr
  /\ current_obs = Unbound
  /\ calls = <<>>

(* Every configuration with the default learning-rate schedule, line 62. *)
Init == InitWith({c \in Configs : c.lr_decay_type = "exponential"})

(* ------------------------------ actions -------------------------------- *)
(* Lines 83-178: environments, curriculum and specialist start values,     *)
(* agent, buffer, first reset, reward histories, loop bound.               *)
Setup ==
  /\ pc = "start"
  /\ curriculum' = IF args.use_curriculum THEN 0 ELSE Unbound
  /\ specialist' = IF args.use_specialist THEN 0 ELSE Unbound
  /\ envs' = [curriculum |-> IF args.use_curriculum THEN 0 ELSE Unbound,
              specialist |-> IF args.use_specialist THEN 0 ELSE Unbound]
  /\ episode_rewards' = <<>>
  /\ test_episode_rewards' = <<>>
  /\ num_updates' = NumUpdates(args.num_frames, args.num_steps, args.num_processes)
  /\ next_checkpoint' = args.save_every
  /\ max_ep_reward' = NegInf
  /\ events' = <<"envs.reset">>
  /\ current_obs' = 0
  /\ rollouts' = [NewRollouts(args.num_steps) EXCEPT !.obs[1] = 0]
  /\ pc' = "loop_head"
  /\ UNCHANGED <<optimizer_lr, calls, args, j, step, frame_count, model_name,
                 actor_critic, ac_state_dict, store, logged, written,
                 stats_calls, best_means, totals>>

(* Line 180: the next update begins, or the loop is over. *)
LoopHead ==
  /\ pc = "loop_head"
  /\ IF InRange(j + 1, num_updates)
       THEN /\ j' = j + 1
            /\ pc' = "schedule_lr"
       ELSE /\ j' = j
            /\ pc' = "done"
  /\ events' = <<>>
  /\ written' = <<>>
  /\ logged' = <<>>
  /\ stats_calls' = {}
  /\ calls' = <<>>
  /\ UNCHANGED <<optimizer_lr, current_obs, args, num_updates, step,
                 episode_rewards, test_episode_rewards, curriculum,
                 specialist, envs, next_checkpoint, max_ep_reward,
                 frame_count, model_name, actor_critic, ac_state_dict,
                 rollouts, store, best_means, totals>>

(* Lines 182-189: the scheduled learning rate goes to the optimizer. *)
ScheduleLr ==
  /\ pc = "schedule_lr"
  /\ optimizer_lr' = ScheduledLr(args.lr_decay_type, j)
  /\ calls' = Append(calls, Call("set_optimizer_lr", "none", FALSE,
                                 actor_critic, Unbound, totals.env_steps))
  /\ pc' = Follows("schedule_lr")
  /\ UNCHANGED <<current_obs, args, num_updates, j, step, episode_rewards,
                 test_episode_rewards, curriculum, specialist, envs,
                 next_checkpoint, max_ep_reward, frame_count, model_name,
                 actor_critic, ac_state_dict, rollouts, store, logged, events,
                 written, stats_calls, best_means, totals>>

(* Line 191: deep copy of the parameters. *)
Snapshot ==
  /\ pc = "snapshot"
  /\ ac_state_dict' = actor_critic
  /\ step' = 0
  /\ pc' = Follows("snapshot")
  /\ UNCHANGED <<optimizer_lr, current_obs, calls, args, num_updates, j,
                 episode_rewards, test_episode_rewards, curriculum,
                 specialist, envs, next_checkpoint, max_ep_reward,
                 frame_count, model_name, actor_critic, rollouts, store,
                 logged, events, written, stats_calls, best_means, totals>>

(* Lines 193-267, one iteration: act, envs.step, the infos, rollouts.insert. *)
CollectStep ==
  /\ pc = "collect"
  /\ InRange(step, args.num_steps)
  /\ \E infos \in [1..args.num_processes -> {NoEpisode} \cup Rewards] :
       episode_rewards' =
         AppendEpisodes(episode_rewards, infos, 1, args.num_processes)
  /\ calls' = Append(calls, Call("act", "train", FALSE, actor_critic,
                                 ObsRow(rollouts, step), totals.env_steps))
  /\ current_obs' = InsertedObs(current_obs, totals.env_steps + 1)
  /\ rollouts' = Insert(rollouts, current_obs', args.num_steps)
  /\ events' = events \o <<"envs.step", "rollouts.insert">>
  /\ totals' = [totals EXCEPT !.env_steps = @ + 1, !.inserts = @ + 1]
  /\ step' = step + 1
  /\ UNCHANGED <<optimizer_lr, args, pc, num_updates, j,
                 test_episode_rewards, curriculum, specialist, envs,
                 next_checkpoint, max_ep_reward, frame_count, model_name,
                 actor_critic, ac_state_dict, store, logged, written,
                 stats_calls, best_means>>

(* Line 193: the collection loop is exhausted. *)
CollectExit ==
  /\ pc = "collect"
  /\ ~InRange(step, args.num_steps)
  /\ pc' = Follows("collect")
  /\ UNCHANGED <<optimizer_lr, current_obs, calls, args, num_updates, j, step,
                 episode_rewards,
                 test_episode_rewards, curriculum, specialist, envs,
                 next_checkpoint, max_ep_reward, frame_count, model_name,
                 actor_critic, ac_state_dict, rollouts, store, logged, events,
                 written, stats_calls, best_means, totals>>

(* Line 270: test_envs.reset(). *)
TestReset ==
  /\ pc = "test_reset"
  /\ events' = Append(events, "test_envs.reset")
  /\ step' = 0
  /\ pc' = Follows("test_reset")
  /\ UNCHANGED <<optimizer_lr, current_obs, calls, args, num_updates, j,
                 episode_rewards, test_episode_rewards, curriculum,
                 specialist, envs, next_checkpoint, max_ep_reward,
                 frame_count, model_name, actor_critic, ac_state_dict,
                 rollouts, store, logged, written, stats_calls, best_means,
                 totals>>

(* Lines 273-288, one iteration: deterministic act, test_envs.step. *)
TestStep ==
  /\ pc = "evaluate"
  /\ InRange(step, args.max_episode_steps)
  /\ \E infos \in [1..args.num_tests -> {NoEpisode} \cup TestRewards] :
       test_episode_rewards' =
         AppendEpisodes(test_episode_rewards, infos, 1, args.num_tests)
  /\ events' = Append(events, "test_envs.step")
  /\ calls' = Append(calls, Call("act", "test", EvalDeterministic, actor_critic,
                                 Unbound, totals.env_steps))
  /\ step' = step + 1
  /\ UNCHANGED <<optimizer_lr, current_obs, args, pc, num_updates, j,
                 episode_rewards, curriculum, specialist, envs,
                 next_checkpoint, max_ep_reward, frame_count, model_name,
                 actor_critic, ac_state_dict, rollouts, store, logged,
                 written, stats_calls, best_means, totals>>

(* Line 273: the evaluation loop is exhausted. *)
EvaluateExit ==
  /\ pc = "evaluate"
  /\ ~InRange(step, args.max_episode_steps)
  /\ pc' = Follows("evaluate")
  /\ UNCHANGED <<optimizer_lr, current_obs, calls, args, num_updates, j, step,
                 episode_rewards,
                 test_episode_rewards, curriculum, specialist, envs,
                 next_checkpoint, max_ep_reward, frame_count, model_name,
                 actor_critic, ac_state_dict, rollouts, store, logged, events,
                 written, stats_calls, best_means, totals>>

(* Lines 291-294: the curriculum test. Python's `and` evaluates np.median  *)
(* only when use_curriculum is set.                                        *)
CurriculumCheck ==
  /\ pc = "curriculum"
  /\ IF args.use_curriculum
       THEN /\ stats_calls' = stats_calls \cup {<<291, Len(episode_rewards)>>}
            /\ events' = Append(events, "curriculum_test")
       ELSE UNCHANGED <<stats_calls, events>>
  /\ IF CurriculumDue(args.use_curriculum, episode_rewards)
       THEN /\ curriculum' = NextCurriculum(curriculum)
            /\ envs' = [envs EXCEPT !.curriculum = curriculum']
       ELSE UNCHANGED <<curriculum, envs>>
  /\ pc' = Follows("curriculum")
  /\ UNCHANGED <<optimizer_lr, current_obs, calls, args, num_updates, j, step,
                 episode_rewards,
                 test_episode_rewards, specialist, next_checkpoint, max_ep_reward,
                 frame_count, model_name, actor_critic, ac_state_dict, rollouts,
                 store, logged, written, best_means, totals>>

(* Lines 296-301: bootstrap value from the last row, compute_returns. *)
ComputeReturns ==
  /\ pc = "advantage"
  /\ rollouts' = [rollouts EXCEPT !.next_value_row = LastRow(args.num_steps)]
  /\ calls' = Append(calls, Call("get_value", "train", FALSE, actor_critic,
                                 ObsRow(rollouts, LastRow(args.num_steps)),
                                 totals.env_steps))
  /\ events' = Append(events, "compute_returns")
  /\ pc' = Follows("advantage")
  /\ UNCHANGED <<optimizer_lr, current_obs, args, num_updates, j, step,
                 episode_rewards, test_episode_rewards, curriculum,
                 specialist, envs, next_checkpoint, max_ep_reward,
                 frame_count, model_name, actor_critic, ac_state_dict, store,
                 logged, written, stats_calls, best_means, totals>>

(* Line 303: agent.update changes the live parameters. *)
AgentUpdate ==
  /\ pc = "optimize"
  /\ actor_critic' = actor_critic + 1
  /\ events' = Append(events, "agent.update")
  /\ totals' = [totals EXCEPT !.updates = @ + 1]
  /\ pc' = Follows("optimize")
  /\ UNCHANGED <<optimizer_lr, current_obs, calls, args, num_updates, j, step,
                 episode_rewards,
                 test_episode_rewards, curriculum, specialist, envs,
                 next_checkpoint, max_ep_reward, frame_count, model_name,
                 ac_state_dict, rollouts, store, logged, written, stats_calls,
                 best_means>>

(* Line 305 *)
AfterUpdate ==
  /\ pc = "after_update"
  /\ rollouts' = AfterUpdateRows(rollouts)
  /\ events' = Append(events, "after_update")
  /\ pc' = Follows("after_update")
  /\ UNCHANGED <<optimizer_lr, current_obs, calls, args, num_updates, j, step,
                 episode_rewards,
                 test_episode_rewards, curriculum, specialist, envs,
                 next_checkpoint, max_ep_reward, frame_count, model_name,
                 actor_critic, ac_state_dict, store, logged, written,
                 stats_calls, best_means, totals>>

(* Lines 307-314: the frame count and the name of this update's snapshot. *)
ChooseModelName ==
  /\ pc = "model_name"
  /\ frame_count' = FrameCount(j, args.num_steps, args.num_processes)
  /\ IF CheckpointDue(frame_count', next_checkpoint, j, num_updates, args.save_dir)
       THEN /\ model_name' = MilestoneName(next_checkpoint)
            /\ next_checkpoint' = NextCheckpoint(next_checkpoint, args.save_every)
       ELSE /\ model_name' = LatestName
            /\ UNCHANGED next_checkpoint
  /\ events' = Append(events, "model_name")
  /\ pc' = Follows("model_name")
  /\ UNCHANGED <<optimizer_lr, current_obs, calls, args, num_updates, j, step,
                 episode_rewards,
                 test_episode_rewards, curriculum, specialist, envs,
                 max_ep_reward, actor_critic, ac_state_dict, rollouts, store,
                 logged, written, stats_calls, best_means, totals>>

(* Lines 321-328: the specialist fork. *)
SpecialistFork ==
  /\ pc = "specialist"
  /\ IF args.use_specialist
       THEN stats_calls' = stats_calls \cup {<<321, Len(episode_rewards)>>}
       ELSE UNCHANGED stats_calls
  /\ IF SpecialistDue(args.use_specialist, episode_rewards)
       THEN /\ store' = Saved(store, SpecialistName(specialist),
                            SaveModelValue(actor_critic, ac_state_dict))
            /\ written' = Append(written, SpecialistName(specialist))
            /\ specialist' = NextSpecialist(specialist)
            /\ envs' = [envs EXCEPT !.specialist = specialist']
       ELSE UNCHANGED <<store, written, specialist, envs>>
  /\ pc' = Follows("specialist")
  /\ UNCHANGED <<optimizer_lr, current_obs, calls, args, num_updates, j, step,
                 episode_rewards,
                 test_episode_rewards, curriculum, next_checkpoint, max_ep_reward,
                 frame_count, model_name, actor_critic, ac_state_dict, rollouts,
                 logged, events, best_means, totals>>

(* Line 330: save_model is the live actor_critic (line 317). *)
SaveModel ==
  /\ pc = "save_model"
  /\ store' = Saved(store, model_name, SaveModelValue(actor_critic, ac_state_dict))
  /\ written' = Append(written, model_name)
  /\ events' = Append(events, "torch.save")
  /\ pc' = Follows("save_model")
  /\ UNCHANGED <<optimizer_lr, current_obs, calls, args, num_updates, j, step,
                 episode_rewards,
                 test_episode_rewards, curriculum, specialist, envs,
                 next_checkpoint, max_ep_reward, frame_count, model_name,
                 actor_critic, ac_state_dict, rollouts, logged, stats_calls,
                 best_means, totals>>

(* Lines 332-335: the best snapshot. len(...) > 1 is tested first. *)
SaveBest ==
  /\ pc = "save_best"
  /\ IF Len(episode_rewards) > 1
       THEN stats_calls' = stats_calls \cup {<<332, Len(episode_rewards)>>}
       ELSE UNCHANGED stats_calls
  /\ IF BestDue(episode_rewards, max_ep_reward)
       THEN /\ model_name' = BestName
            /\ max_ep_reward' = Mean(episode_rewards)
            /\ best_means' = best_means \cup {Mean(episode_rewards)}
            /\ store' = Saved(store, BestName,
                            SaveModelValue(actor_critic, ac_state_dict))
            /\ written' = Append(written, BestName)
       ELSE UNCHANGED <<model_name, max_ep_reward, best_means, store, written>>
  /\ pc' = Follows("save_best")
  /\ UNCHANGED <<optimizer_lr, current_obs, calls, args, num_updates, j, step,
                 episode_rewards,
                 test_episode_rewards, curriculum, specialist, envs,
                 next_checkpoint, frame_count, actor_critic, ac_state_dict,
                 rollouts, logged, events, totals>>

(* Lines 337-351: the metrics record. *)
LogEpoch ==
  /\ pc = "log"
  /\ IF LogDue(episode_rewards)
       THEN /\ logged' = Append(logged,
                 LogRecord(j, args.num_processes, args.num_steps))
            /\ stats_calls' = stats_calls \cup {<<348, Len(episode_rewards)>>}
       ELSE UNCHANGED <<logged, stats_calls>>
  /\ pc' = Follows("log")
  /\ UNCHANGED <<optimizer_lr, current_obs, calls, args, num_updates, j, step,
                 episode_rewards,
                 test_episode_rewards, curriculum, specialist, envs,
                 next_checkpoint, max_ep_reward, frame_count, model_name,
                 actor_critic, ac_state_dict, rollouts, store, events, written,
                 best_means, totals>>

Next ==
  \/ Setup
  \/ LoopHead
  \/ ScheduleLr
  \/ Snapshot
  \/ CollectStep
  \/ CollectExit
  \/ TestReset
  \/ TestStep
  \/ EvaluateExit
  \/ CurriculumCheck
  \/ ComputeReturns
  \/ AgentUpdate
  \/ AfterUpdate
  \/ ChooseModelName
  \/ SpecialistFork
  \/ SaveModel
  \/ SaveBest
  \/ LogEpoch

Spec == Init /\ [][Next]_vars

(* The control thread is the only thread and every call it makes returns:  *)
(* main always takes its next step.                                        *)
FairSpec == Spec /\ WF_vars(Next)

(* torch.save raises (a local I/O error) at line 326, 330 or 335. Nothing  *)
(* in main catches it: the exception leaves main.                          *)
SaveRaises ==
  /\ \/ pc = "specialist" /\ SpecialistDue(args.use_specialist, episode_rewards)
     \/ pc = "save_model"
     \/ pc = "save_best" /\ BestDue(episode_rewards, max_ep_reward)
  /\ stats_calls' = stats_calls \cup
       (CASE pc = "specialist" -> {<<321, Len(episode_rewards)>>}
          [] pc = "save_best"  -> {<<332, Len(episode_rewards)>>}
          [] OTHER             -> {})
  /\ events' = Append(events, "torch.save raises")
  /\ pc' = "aborted"
  /\ UNCHANGED <<optimizer_lr, current_obs, calls, args, num_updates, j, step,
                 episode_rewards,
                 test_episode_rewards, curriculum, specialist, envs,
                 next_checkpoint, max_ep_reward, frame_count, model_name,
                 actor_critic, ac_state_dict, rollouts, store, logged, written,
                 best_means, totals>>

FaultNext == Next \/ SaveRaises

FaultSpec == Init /\ [][FaultNext]_vars

(* What main has done when an environment call raises: at line 159 the    *)
(* start values of lines 104-111 are set and pushed, at lines 203 and 280  *)
(* the policy has acted (lines 196, 277).                                  *)
EnvRaisesEffects ==
  /\ \/ pc = "start"
     \/ pc = "collect" /\ InRange(step, args.num_steps)
     \/ pc = "test_reset"
     \/ pc = "evaluate" /\ InRange(step, args.max_episode_steps)
  /\ IF pc = "start"
       THEN /\ curriculum' = IF args.use_curriculum THEN 0 ELSE Unbound
            /\ specialist' = IF args.use_specialist THEN 0 ELSE Unbound
            /\ envs' = [curriculum |-> curriculum', specialist |-> specialist']
       ELSE UNCHANGED <<curriculum, specialist, envs>>
  /\ calls' =
       CASE pc = "collect"  -> Append(calls, Call("act", "train", FALSE, actor_critic,
                                                  ObsRow(rollouts, step), totals.env_steps))
         [] pc = "evaluate" -> Append(calls, Call("act", "test", EvalDeterministic,
                                                  actor_critic, Unbound, totals.env_steps))
         [] OTHER           -> calls
  /\ events' = Append(events,
       CASE pc = "start"      -> "envs.reset raises"
         [] pc = "collect"    -> "envs.step raises"
         [] pc = "test_reset" -> "test_envs.reset raises"
         [] OTHER             -> "test_envs.step raises")
  /\ UNCHANGED <<optimizer_lr, current_obs, args, num_updates, j, step,
                 episode_rewards, test_episode_rewards, next_checkpoint,
                 max_ep_reward, frame_count, model_name, actor_critic,
                 ac_state_dict, rollouts, store, logged, written, stats_calls,
                 best_means, totals>>

(* Mutant: the exception is caught and the loop goes on. *)
EnvRaisesSwallowed ==
  /\ EnvRaisesEffects
  /\ pc' = IF pc = "start" THEN "loop_head" ELSE pc

(* envs.reset (line 159), envs.step (203), test_envs.reset (270) or        *)
(* test_envs.step (280) raises. Nothing in main catches it: the exception  *)
(* leaves main.                                                            *)
EnvRaises ==
  /\ EnvRaisesEffects
  /\ pc' = "aborted"

EnvFaultNext == Next \/ EnvRaises

EnvFaultSpec == Init /\ [][EnvFaultNext]_vars

(* The runs of every learning-rate schedule of lines 182-187, with the     *)
(* curriculum and the specialists switched off.                            *)
LrInit == InitWith({c \in Configs : ~c.use_curriculum /\ ~c.use_specialist})

LrSpec == LrInit /\ [][Next]_vars

(* ------------------- rollouts.compute_returns (line 301) --------------- *)
(* The returns of one worker's column of the buffer, computed backward     *)
(* from row H as RolloutStorage.compute_returns is specified. Row t of a   *)
(* field is element t + 1 of its sequence; no step is a time-out           *)
(* (bad_masks all 1).                                                      *)
MaxHorizon == 2

BufferRewards == {-1, 1}

BufferValues == {0, 1}

BufferMasks == {0, 1}

GaeLambdas == {0, 1}

(* The variables neither compute_returns nor the handling of one           *)
(* environment step reads or writes.                                       *)
rest == <<num_updates, j, test_episode_rewards, curriculum, specialist, envs,
          next_checkpoint, max_ep_reward, frame_count, model_name,
          actor_critic, ac_state_dict, store, logged, events, written,
          stats_calls, best_means, totals, optimizer_lr, current_obs, calls>>

RestInitial ==
  /\ num_updates = Unbound
  /\ j = Unbound
  /\ test_episode_rewards = <<>>
  /\ curriculum = Unbound
  /\ specialist = Unbound
  /\ envs = [curriculum |-> Unbound, specialist |-> Unbound]
  /\ next_checkpoint = Unbound
  /\ max_ep_reward = NegInf
  /\ frame_count = Unbound
  /\ model_name = LatestName
  /\ actor_critic = 0
  /\ ac_state_dict = Unbound
  /\ store = EmptyStore
  /\ logged = <<>>
  /\ events = <<>>
  /\ written = <<>>
  /\ stats_calls = {}
  /\ best_means = {}
  /\ totals = [env_steps |-> 0, inserts |-> 0, updates |-> 0]
  /\ optimizer_lr = ConstructedLr
  /\ current_obs = Unbound
  /\ calls = <<>>

(* delta_t = r_t + gamma * V_{t+1} * mask_{t+1} - V_t *)
GaeDelta(r, v, next_v, next_mask, gamma) == r + gamma * next_v * next_mask - v

(* Mutant: the advantage is carried across an episode boundary. *)
GaeAdvantageUnmasked(delta, next_mask, next_gae, gamma, lambda) ==
  delta + gamma * lambda * next_gae

(* A_t = delta_t + gamma * lambda * mask_{t+1} * A_{t+1} *)
GaeAdvantage(delta, next_mask, next_gae, gamma, lambda) ==
  delta + gamma * lambda * next_mask * next_gae

(* return_t = r_t + gamma * mask_{t+1} * return_{t+1} *)
DiscountedReturn(r, next_mask, next_return, gamma) ==
  r + gamma * next_mask * next_return

GaeInit ==
  /\ \E h \in 1..MaxHorizon :
       /\ \E g \in BOOLEAN, l \in GaeLambdas :
            args = [num_steps |-> h, use_gae |-> g, gamma |-> 1, gae_lambda |-> l]
       /\ \E rs \in [1..h -> BufferRewards],
             vs \in [1..(h + 1) -> BufferValues],
             ms \in [1..(h + 1) -> BufferMasks],
             nv \in BufferValues :
            rollouts = [rewards |-> rs, value_preds |-> vs, masks |-> ms,
                        returns |-> [t \in 1..(h + 1) |-> 0],
                        next_value |-> nv, gae |-> 0]
  /\ pc = "compute_returns"
  /\ step = Unbound
  /\ episode_rewards = <<>>
  /\ RestInitial

(* Entry of compute_returns: the bootstrap value seeds row H. *)
ComputeReturnsEnter ==
  /\ pc = "compute_returns"
  /\ rollouts' =
       IF args.use_gae
         THEN [rollouts EXCEPT !.value_preds[args.num_steps + 1] = rollouts.next_value,
                               !.gae = 0]
         ELSE [rollouts EXCEPT !.returns[args.num_steps + 1] = rollouts.next_value]
  /\ step' = args.num_steps - 1
  /\ pc' = "backward"
  /\ UNCHANGED <<args, episode_rewards, rest>>

(* One row of the backward pass in GAE mode. *)
GaeBackward ==
  /\ pc = "backward"
  /\ args.use_gae
  /\ step >= 0
  /\ LET delta == GaeDelta(rollouts.rewards[step + 1], rollouts.value_preds[step + 1],
                           rollouts.value_preds[step + 2], rollouts.masks[step + 2],
                           args.gamma)
         gae   == GaeAdvantage(delta, rollouts.masks[step + 2], rollouts.gae,
                               args.gamma, args.gae_lambda)
     IN  rollouts' = [rollouts EXCEPT !.gae = gae,
                        !.returns[step + 1] = gae + rollouts.value_preds[step + 1]]
  /\ step' = step - 1
  /\ UNCHANGED <<args, pc, episode_rewards, rest>>

(* One row of the backward pass without GAE. *)
DiscountedBackward ==
  /\ pc = "backward"
  /\ ~args.use_gae
  /\ step >= 0
  /\ rollouts' = [rollouts EXCEPT !.returns[step + 1] =
       DiscountedReturn(rollouts.rewards[step + 1], rollouts.masks[step + 2],
                        rollouts.returns[step + 2], args.gamma)]
  /\ step' = step - 1
  /\ UNCHANGED <<args, pc, episode_rewards, rest>>

(* Row 0 is done: compute_returns returns. *)
ComputeReturnsExit ==
  /\ pc = "backward"
  /\ step < 0
  /\ pc' = "returned"
  /\ UNCHANGED <<args, step, rollouts, episode_rewards, rest>>

GaeNext ==
  \/ ComputeReturnsEnter
  \/ GaeBackward
  \/ DiscountedBackward
  \/ ComputeReturnsExit

GaeSpec == GaeInit /\ [][GaeNext]_vars

(* ---------------- one environment step's infos (lines 244-267) --------- *)
(* What main does with the done flags and infos one envs.step returned.    *)
(* Here rollouts holds the step's outputs (done, infos), the locals masks  *)
(* and bad_masks, the row handed to rollouts.insert and the reward history *)
(* as it was before the step; step is p_index.                             *)
InfoKeys == {"episode", "bad_transition"}

Infos == [keys : SUBSET InfoKeys, r : Rewards]

(* Mutant: the Monitor's key is taken for the time-limit key. *)
BadMaskOnEpisode(keys) == IF "episode" \in keys THEN 0 ELSE 1

(* Lines 244, 248-249 *)
BadMask(keys) == IF "bad_transition" \in keys THEN 0 ELSE 1

(* Line 254 *)
Mask(done_) == IF done_ THEN 0 ELSE 1

MaskInit ==
  /\ \E p \in 1..MaxProcesses :
       /\ args = [num_processes |-> p]
       /\ \E done \in [1..p -> BOOLEAN], infos \in [1..p -> Infos] :
            \E h \in {<<>>} \cup {<<r>> : r \in Rewards} :
              /\ rollouts = [done |-> done, infos |-> infos,
                             bad_masks |-> [w \in 1..p |-> 1],
                             masks |-> Unbound, inserted |-> Unbound,
                             history |-> h]
              /\ episode_rewards = h
  /\ pc = "infos"
  /\ step = 1
  /\ RestInitial

(* Lines 245-252, one worker's info. *)
InfoStep ==
  /\ pc = "infos"
  /\ step <= args.num_processes
  /\ LET info == rollouts.infos[step]
     IN  /\ rollouts' = [rollouts EXCEPT !.bad_masks[step] =
                           IF BadMask(info.keys) = 0 THEN 0 ELSE @]
         /\ episode_rewards' =
              IF "episode" \in info.keys
                THEN DequeAppend(episode_rewards, info.r, args.num_processes)
                ELSE episode_rewards
  /\ step' = step + 1
  /\ UNCHANGED <<args, pc, rest>>

(* Line 245: the infos are exhausted. *)
InfosExit ==
  /\ pc = "infos"
  /\ step > args.num_processes
  /\ pc' = "masks"
  /\ UNCHANGED <<args, step, rollouts, episode_rewards, rest>>

(* Lines 254-255 *)
MakeMasks ==
  /\ pc = "masks"
  /\ rollouts' = [rollouts EXCEPT !.masks =
                    [w \in 1..args.num_processes |-> Mask(rollouts.done[w])]]
  /\ pc' = "insert"
  /\ UNCHANGED <<args, step, episode_rewards, rest>>

(* Lines 258-267: masks and bad_masks go into the buffer. *)
InsertMasks ==
  /\ pc = "insert"
  /\ rollouts' = [rollouts EXCEPT !.inserted =
                    [masks |-> rollouts.masks, bad_masks |-> rollouts.bad_masks]]
  /\ pc' = "inserted"
  /\ UNCHANGED <<args, step, episode_rewards, rest>>

MaskNext ==
  \/ InfoStep
  \/ InfosExit
  \/ MakeMasks
  \/ InsertMasks

MaskSpec == MaskInit /\ [][MaskNext]_vars

(* ============================== claims ================================= *)
IsPrefix(a, b) == Len(a) <= Len(b) /\ SubSeq(b, 1, Len(a)) = a

RECURSIVE Repeat(_, _)
Repeat(s, n) == IF n <= 0 THEN <<>> ELSE s \o Repeat(s, n - 1)

Count(s, x) == Cardinality({i \in DOMAIN s : s[i] = x})

IsPhaseEvent(e) == e # "curriculum_test"

(* The calls of the current update that belong to the five phases. *)
PhaseEvents == SelectSeq(events, IsPhaseEvent)

(* COLLECT, EVALUATE, ADVANTAGE, OPTIMIZE, CHECKPOINT of one update. *)
ExpectedPhases ==
  Repeat(<<"envs.step", "rollouts.insert">>, args.num_steps)
    \o <<"test_envs.reset">>
    \o Repeat(<<"test_envs.step">>, args.max_episode_steps)
    \o <<"compute_returns", "agent.update", "after_update", "model_name", "torch.save">>

InUpdate == j >= 0 /\ pc \notin {"start", "done", "aborted"}

(* C1: within every update the calls made so far are a prefix of           *)
(* H x (envs.step, rollouts.insert), test reset and steps, compute_returns *)
(* (bootstrap read from buffer row H), agent.update, after_update, the     *)
(* checkpoint; the next update starts only after the whole sequence, and   *)
(* the number of agent.update calls equals the number of rollouts used.    *)
C1_PhaseOrder ==
  InUpdate =>
    /\ IsPrefix(PhaseEvents, ExpectedPhases)
    /\ (pc = "loop_head" => PhaseEvents = ExpectedPhases)
    /\ ("compute_returns" \in Range(events) =>
          rollouts.next_value_row = args.num_steps)
    /\ totals.updates = j + Count(events, "agent.update")
    /\ totals.env_steps = j * args.num_steps + Count(events, "envs.step")
    /\ totals.inserts = totals.env_steps

C1_Witness ==
  /\ pc = "loop_head"
  /\ j = 1
  /\ args.num_steps = 2
  /\ PhaseEvents = ExpectedPhases
  /\ totals.updates = 2

(* floor(a / b), by its defining inequalities. *)
Floor(a, b) == CHOOSE q \in 0..a : q * b <= a /\ a < (q + 1) * b

RolloutFrames == args.num_steps * args.num_processes

C2_Budget ==
  /\ (pc # "start" => num_updates = Floor(args.num_frames, RolloutFrames))
  /\ (j >= 0 => (j + 1) * RolloutFrames <= args.num_frames)
  /\ (pc = "done" =>
        /\ totals.updates = Floor(args.num_frames, RolloutFrames)
        /\ j + 1 = totals.updates
        /\ args.num_frames - totals.updates * RolloutFrames < RolloutFrames
        /\ args.num_frames - totals.updates * RolloutFrames >= 0)

(* C2: when every call returns, the loop ends, after exactly               *)
(* floor(num_frames / (num_steps * num_processes)) updates; the cumulative *)
(* frame count never exceeds num_frames and less than one rollout of the   *)
(* budget is left at the end.                                              *)
C2_Terminates == []C2_Budget /\ <>(pc = "done")

C2_Witness ==
  /\ pc = "done"
  /\ args.num_frames = 3
  /\ args.num_steps = 1
  /\ args.num_processes = 2
  /\ totals.updates = 1

Before(s, a, b) ==
  \A i \in DOMAIN s : s[i] = b => \E k \in 1..(i - 1) : s[k] = a

(* C3 as stated: the curriculum test is made only after compute_returns,   *)
(* agent.update and after_update of the same update.                       *)
C3_AfterOptimize ==
  /\ Before(events, "compute_returns", "curriculum_test")
  /\ Before(events, "agent.update", "curriculum_test")
  /\ Before(events, "after_update", "curriculum_test")

(* C3 amended: with curriculum enabled the test is made once per update,   *)
(* right after the last step of EVALUATE and before compute_returns.       *)
C3_BeforeAdvantage ==
  (args.use_curriculum /\ InUpdate) =>
    /\ Count(events, "curriculum_test") <= 1
    /\ \A i \in DOMAIN events : events[i] = "curriculum_test" =>
         /\ i > 1
         /\ events[i - 1] \in {"test_envs.step", "test_envs.reset"}
         /\ Count(SubSeq(events, 1, i), "test_envs.step") = args.max_episode_steps
         /\ Count(SubSeq(events, 1, i), "rollouts.insert") = args.num_steps
         /\ Count(SubSeq(events, 1, i), "compute_returns") = 0
    /\ Before(events, "curriculum_test", "compute_returns")

C3_Witness ==
  /\ args.use_curriculum
  /\ curriculum = 1
  /\ j = 0
  /\ pc = "advantage"
  /\ "curriculum_test" \in Range(events)

C4_Inv ==
  (args.use_curriculum /\ pc # "start") =>
    /\ curriculum >= 0
    /\ envs.curriculum = curriculum
    /\ Count(events, "curriculum_test") <= 1

C4_Step ==
  args.use_curriculum =>
    /\ (pc = "start" => curriculum' = 0)
    /\ (pc # "start" =>
          /\ curriculum' \in {curriculum, curriculum + 1}
          /\ envs'.curriculum = curriculum'
          /\ (curriculum' # curriculum =>
                /\ pc # "collect" /\ pc' # "collect"
                /\ "curriculum_test" \notin Range(events)
                /\ events' = Append(events, "curriculum_test")))

(* C4: with curriculum enabled the level starts at 0, never decreases,     *)
(* rises by at most one per update and never during COLLECT, and the level *)
(* last pushed through update_curriculum is the loop's own.                *)
C4_Curriculum == []C4_Inv /\ [][C4_Step]_vars

C4_Witness ==
  /\ args.use_curriculum
  /\ curriculum = 2
  /\ envs.curriculum = 2
  /\ j = 1

IsSnapshotName(n) == n[1] \in {"milestone", "latest"}

SnapshotWrites == Cardinality({i \in DOMAIN written : IsSnapshotName(written[i])})

C5_Common ==
  /\ (InUpdate /\ pc \in {"save_best", "log", "loop_head"} => SnapshotWrites = 1)
  /\ (InUpdate /\ pc \notin {"save_best", "log", "loop_head"} => SnapshotWrites = 0)
  /\ \A n \in DOMAIN store : n[1] = "milestone" => store[n].writes = 1

(* C5 as stated: a milestone named for T is written only in an update      *)
(* whose frame count has reached T.                                        *)
C5_MilestoneReached ==
  /\ C5_Common
  /\ \A i \in DOMAIN written : written[i][1] = "milestone" =>
       (j + 1) * RolloutFrames >= written[i][2]

(* C5 amended: every update writes exactly one of the milestone and the    *)
(* "latest" artifact; a milestone named for T is written only in an update *)
(* whose frame count has reached T or in the last update; no milestone     *)
(* name is written twice.                                                  *)
C5_MilestoneOrLast ==
  /\ C5_Common
  /\ \A i \in DOMAIN written : written[i][1] = "milestone" =>
       \/ (j + 1) * RolloutFrames >= written[i][2]
       \/ j = num_updates - 1

C5_Witness ==
  /\ pc = "log"
  /\ j = num_updates - 1
  /\ j = 1
  /\ \E i \in DOMAIN written :
       written[i][1] = "milestone" /\ (j + 1) * RolloutFrames < written[i][2]
  /\ LatestName \in DOMAIN store

NewlyWritten(n) == n \in Range(written') /\ n \notin Range(written)

AboveEveryBest(h) == \A m \in best_means : FracGT(Mean(h), m)

NotBelow(a, b) == ~FracGT(b, a)

(* C6 as stated: "best" is written exactly in the updates where the mean   *)
(* of the (non-empty) history exceeds every mean recorded before.          *)
C6_BestOnImprovement ==
  [][ /\ NewlyWritten(BestName) <=>
           (pc = "save_best" /\ Len(episode_rewards) >= 1
              /\ AboveEveryBest(episode_rewards))
      /\ NotBelow(max_ep_reward', max_ep_reward) ]_vars

(* C6 amended: "best" is written exactly in the updates where the history  *)
(* holds at least two episode rewards and its mean exceeds the mean        *)
(* recorded at every earlier "best" write; max_ep_reward never decreases.  *)
C6_BestOnImprovementOfTwo ==
  [][ /\ NewlyWritten(BestName) <=>
           (pc = "save_best" /\ Len(episode_rewards) >= 2
              /\ AboveEveryBest(episode_rewards))
      /\ NotBelow(max_ep_reward', max_ep_reward) ]_vars

C6_Witness ==
  /\ pc = "log"
  /\ BestName \in Range(written)
  /\ Cardinality(best_means) = 2
  /\ store[BestName].writes = 2

SpecialistArtifacts == {n \in DOMAIN store : n[1] = "specialist"}

C7_Inv ==
  (args.use_specialist /\ pc # "start") =>
    /\ specialist >= 0
    /\ envs.specialist = specialist
    /\ SpecialistArtifacts = {SpecialistName(k) : k \in 0..(specialist - 1)}
    /\ \A n \in SpecialistArtifacts : store[n].writes = 1

C7_Step ==
  (args.use_specialist /\ pc = "specialist") =>
    IF Len(episode_rewards) > 0
         /\ Sum(episode_rewards) > SpecialistThreshold * Len(episode_rewards)
      THEN /\ written' = Append(written, <<"specialist", specialist>>)
           /\ specialist' = specialist + 1
           /\ envs'.specialist = specialist + 1
      ELSE /\ written' = written
           /\ specialist' = specialist

(* C7: with specialist branching enabled, every update whose mean training *)
(* reward exceeds the threshold writes one specialist artifact under the   *)
(* current index and then advances and pushes the index; the index equals  *)
(* the number of specialist artifacts, which carry the ids 0..index-1,     *)
(* each written once, and the pushed index is the loop's own.              *)
C7_Specialist == []C7_Inv /\ [][C7_Step]_vars

C7_Witness ==
  /\ args.use_specialist
  /\ specialist = 2
  /\ envs.specialist = 2
  /\ SpecialistArtifacts = {SpecialistName(0), SpecialistName(1)}

(* C8: no median or mean is ever evaluated over an empty reward history.   *)
C8_NoEmptyAggregate == \A c \in stats_calls : c[2] > 0

(* C9: a run whose num_mini_batch does not divide num_steps*num_processes  *)
(* makes no environment step, no buffer insert and no agent.update.        *)
C9_RejectedAtStartup ==
  (RolloutFrames % args.num_mini_batch # 0) =>
    /\ totals.env_steps = 0
    /\ totals.inserts = 0
    /\ totals.updates = 0

(* C10: a failed checkpoint write in an update that is not the last does  *)
(* not stop the training loop.                                             *)
C10_LoopSurvivesWriteFailure ==
  ("torch.save raises" \in Range(events) /\ j < num_updates - 1) =>
    pc # "aborted"

EnvRaised ==
  \E i \in DOMAIN events :
    events[i] \in {"envs.reset raises", "envs.step raises",
                   "test_envs.reset raises", "test_envs.step raises"}

C11_Step ==
  /\ ~EnvRaised
  /\ EnvRaised' =>
       /\ UNCHANGED <<totals, rollouts, store, written, actor_critic, logged>>
       /\ (pc # "start" => UNCHANGED <<curriculum, specialist, envs>>)

(* C11: when an environment call raises during reset or during a step of   *)
(* COLLECT or EVALUATE the run is aborted: the raising step makes no       *)
(* buffer insert, update or write, and no step at all follows it.          *)
C11_EnvRaiseAborts == [](EnvRaised => pc = "aborted") /\ [][C11_Step]_vars

C11_Witness ==
  /\ pc = "aborted"
  /\ "envs.step raises" \in Range(events)
  /\ j = 1
  /\ totals.inserts = args.num_steps + 1
  /\ args.num_steps = 2

PolicyCalls == {i \in DOMAIN calls : calls[i].call \in {"act", "get_value"}}

C12_Reads ==
  \A i \in PolicyCalls :
    /\ calls[i].params = ac_state_dict
    /\ calls[i].params = j

C12_Step == actor_critic' # actor_critic => pc = "optimize"

(* C12: the live parameters change only in the step of agent.update; every *)
(* act and get_value call of update j reads the parameters that the copy   *)
(* of line 191 holds, which are those left by the j-th agent.update        *)
(* (version j, the updates being counted from 0).                          *)
C12_ParamsOnlyInOptimize == []C12_Reads /\ [][C12_Step]_vars

C12_Witness ==
  /\ j = 1
  /\ pc = "after_update"
  /\ actor_critic = 2
  /\ ac_state_dict = 1
  /\ \E i \in PolicyCalls : calls[i].call = "get_value" /\ calls[i].params = 1
  /\ \E i \in PolicyCalls : calls[i].env = "test" /\ calls[i].params = 1

AtUpdateEnd == pc = "loop_head" /\ j >= 0

ExpectedRecord ==
  [iter |-> j + 1, total_num_steps |-> (j + 1) * args.num_steps * args.num_processes]

(* C13 as stated: an update ends with exactly one record (update index     *)
(* j+1, frame total (j+1)*num_steps*num_processes) when the history of     *)
(* training episode rewards is non-empty, and with none when it is empty.  *)
C13_RecordWhenAnyEpisode ==
  AtUpdateEnd =>
    logged = IF Len(episode_rewards) >= 1 THEN <<ExpectedRecord>> ELSE <<>>

(* C13 amended: an update ends with exactly one record (update index j+1,  *)
(* frame total (j+1)*num_steps*num_processes) when the history holds at    *)
(* least two training episode rewards, and with no record otherwise.       *)
C13_RecordWhenTwoEpisodes ==
  AtUpdateEnd =>
    logged = IF Len(episode_rewards) >= 2 THEN <<ExpectedRecord>> ELSE <<>>

C13_Witness ==
  /\ AtUpdateEnd
  /\ j = 1
  /\ Len(episode_rewards) >= 2
  /\ args.num_processes = 2
  /\ logged = <<[iter |-> 2, total_num_steps |-> 4]>>

InEvaluate == pc \in {"test_reset", "evaluate"}

TestCalls == {i \in DOMAIN calls : calls[i].env = "test"}

C14_Inv ==
  /\ \A i \in TestCalls : calls[i].call = "act" /\ calls[i].deterministic
  /\ Count(events, "test_envs.reset") <= 1
  /\ Count(events, "test_envs.step") = Cardinality(TestCalls)
  /\ pc = "evaluate" =>
       /\ Count(events, "test_envs.reset") = 1
       /\ Count(events, "test_envs.step") = step
  /\ (InUpdate /\ ~InEvaluate /\ "test_envs.reset" \in Range(events)) =>
       Count(events, "test_envs.step") = args.max_episode_steps

C14_Step ==
  InEvaluate =>
    /\ InEvaluate' \/ pc' = Follows("evaluate")
    /\ UNCHANGED <<rollouts, current_obs, envs, totals, episode_rewards,
                   actor_critic, ac_state_dict, optimizer_lr, curriculum,
                   specialist, store, written, logged, next_checkpoint,
                   max_ep_reward, frame_count, model_name, best_means, j>>

(* C14: the test rollout resets the test pool once and steps it exactly    *)
(* max_episode_steps times, every action chosen deterministically; its     *)
(* steps leave the buffer, the training environments, the training reward  *)
(* history, the parameters and the curriculum and specialist state as they *)
(* were, and change only the test reward history.                          *)
C14_EvaluateOnlyTests == []C14_Inv /\ [][C14_Step]_vars

C14_Witness ==
  /\ pc = Follows("evaluate")
  /\ j = 1
  /\ Count(events, "test_envs.step") = args.max_episode_steps
  /\ Len(test_episode_rewards) >= 1
  /\ Len(episode_rewards) >= 1
  /\ \E i \in TestCalls : calls[i].deterministic

(* The recursion of the claim, written out from row t to the seed. *)
RECURSIVE SeededReturn(_, _)
SeededReturn(b, t) ==
  IF t >= Len(b.rewards)
    THEN b.next_value
    ELSE b.rewards[t + 1] + b.masks[t + 2] * SeededReturn(b, t + 1)

Advantages(b) == [t \in 1..Len(b.rewards) |-> b.returns[t] - b.value_preds[t]]

UnitExample(b) ==
  /\ b.rewards = <<1, 1>>
  /\ b.value_preds = <<0, 0, 0>>
  /\ b.masks[2] = 1 /\ b.masks[3] = 1

(* C15: with gamma = 1 and gae_lambda = 1 the returns compute_returns      *)
(* leaves in GAE mode are, at every row of the horizon, the returns of the *)
(* recursion return_t = r_t + mask_{t+1} * return_{t+1} seeded with the    *)
(* bootstrap value, which is also what the non-GAE mode leaves; rewards    *)
(* [1,1], values [0,0,0], masks [1,1] give the advantages 2 and 1.         *)
C15_GaeDegenerates ==
  (pc = "returned" /\ args.gamma = 1 /\ (args.use_gae => args.gae_lambda = 1)) =>
    /\ \A t \in 0..(args.num_steps - 1) :
         rollouts.returns[t + 1] = SeededReturn(rollouts, t)
    /\ (args.use_gae /\ UnitExample(rollouts)) => Advantages(rollouts) = <<2, 1>>

C15_Witness ==
  /\ pc = "returned"
  /\ args.use_gae /\ args.gamma = 1 /\ args.gae_lambda = 1
  /\ UnitExample(rollouts)
  /\ rollouts.masks[1] = 0
  /\ Advantages(rollouts) = <<2, 1>>

TrainActs == {i \in DOMAIN calls : calls[i].call = "act" /\ calls[i].env = "train"}

(* C16: an observation is named by the number of the training-environment *)
(* step that produced it, 0 being the reset. Every act of COLLECT reads    *)
(* the buffer row written with the latest step's observation: the reset's  *)
(* at the first act of the run, the previous row's step within a rollout,  *)
(* the last step of the previous rollout at row 0 of a later one; the      *)
(* bootstrap value is read from the latest one as well. No observation is  *)
(* skipped, read twice or out of order.                                    *)
C16_ObservationContinuity ==
  /\ \A i \in TrainActs : calls[i].obs = calls[i].at
  /\ \A i \in TrainActs : \A k \in TrainActs : i < k => calls[i].obs < calls[k].obs
  /\ \A i \in DOMAIN calls : calls[i].call = "get_value" => calls[i].obs = totals.env_steps
  /\ (InUpdate /\ pc \in {"schedule_lr", "snapshot"}) =>
       ObsRow(rollouts, 0) = j * args.num_steps
  /\ (InUpdate /\ pc = "collect") =>
       /\ totals.env_steps = j * args.num_steps + step
       /\ ObsRow(rollouts, step) = totals.env_steps

C16_Witness ==
  /\ j = 1
  /\ args.num_steps = 2
  /\ pc = "collect"
  /\ step = 2
  /\ \E i \in TrainActs : calls[i].obs = 2 /\ calls[i].at = 2
  /\ \E i \in TrainActs : calls[i].obs = 3 /\ calls[i].at = 3

WrittenModels == {store[written[i]].model : i \in DOMAIN written}

(* C17 as stated: every artifact written in update j holds the copy taken  *)
(* at line 191, before the rollout.                                        *)
C17_SnapshotSerialized == \A m \in WrittenModels : m = ac_state_dict

(* C17 amended: every artifact written in update j (milestone, latest,     *)
(* best, specialist) holds the live parameters as agent.update of update j *)
(* left them, one version after the copy of line 191, which is not saved.  *)
C17_LiveSerialized ==
  \A m \in WrittenModels :
    /\ m = actor_critic
    /\ m = ac_state_dict + 1
    /\ m = j + 1

C17_Witness ==
  /\ AtUpdateEnd
  /\ j = 1
  /\ ac_state_dict = 1
  /\ BestName \in Range(written)
  /\ LatestName \in Range(written)
  /\ \E i \in DOMAIN written : written[i] = SpecialistName(0)
  /\ WrittenModels = {2}

LrCalls == {i \in DOMAIN calls : calls[i].call = "set_optimizer_lr"}

LrOfUpdate ==
  CASE args.lr_decay_type = "linear"      -> [schedule |-> "linear_decay", epoch |-> j]
    [] args.lr_decay_type = "exponential" -> [schedule |-> "exponential_decay", epoch |-> j]
    [] OTHER                              -> [schedule |-> "args.lr", epoch |-> Unbound]

C18_Inv ==
  /\ Cardinality(LrCalls) <= 1
  /\ (InUpdate /\ pc # "schedule_lr") =>
       /\ LrCalls = {1}
       /\ optimizer_lr = LrOfUpdate
  /\ (InUpdate /\ pc = "schedule_lr") => calls = <<>>

C18_Step == optimizer_lr' # optimizer_lr => pc = "schedule_lr"

(* C18: in every update the optimizer's learning rate is set exactly once, *)
(* by the first call of the update and so before COLLECT and OPTIMIZE, to  *)
(* the value the configured schedule gives for the update index j (linear  *)
(* decay at j, exponential decay at j, the configured rate otherwise), and *)
(* no other step changes it.                                               *)
C18_LrOncePerUpdate == []C18_Inv /\ [][C18_Step]_vars

C18_Witness ==
  /\ j = 1
  /\ pc = "optimize"
  /\ args.lr_decay_type = "linear"
  /\ optimizer_lr = [schedule |-> "linear_decay", epoch |-> 1]
  /\ Cardinality(TrainActs) >= 1

(* The rewards of the infos that carry the key "episode", in worker order. *)
RECURSIVE EpisodeRewardsFrom(_, _)
EpisodeRewardsFrom(infos, p) ==
  IF p > Len(infos) THEN <<>>
  ELSE (IF "episode" \in infos[p].keys THEN <<infos[p].r>> ELSE <<>>)
         \o EpisodeRewardsFrom(infos, p + 1)

Newest(s, n) == IF Len(s) <= n THEN s ELSE SubSeq(s, Len(s) - n + 1, Len(s))

(* C19: of one environment step, the mask inserted for a worker is 0 when  *)
(* its done flag is set and 1 otherwise; the bad_mask inserted is 0 when   *)
(* its info has the key bad_transition and 1 otherwise, whatever the done  *)
(* flag; the rewards that entered the history are those of the infos with  *)
(* the key episode, in worker order (the history keeping its newest        *)
(* num_processes entries).                                                 *)
C19_MasksAndEpisodes ==
  /\ pc = "inserted" =>
       \A w \in 1..args.num_processes :
         /\ rollouts.inserted.masks[w] = (IF rollouts.done[w] THEN 0 ELSE 1)
         /\ rollouts.inserted.bad_masks[w] =
              (IF "bad_transition" \in rollouts.infos[w].keys THEN 0 ELSE 1)
  /\ pc # "infos" =>
       episode_rewards =
         Newest(rollouts.history \o EpisodeRewardsFrom(rollouts.infos, 1),
                args.num_processes)

C19_Witness ==
  /\ pc = "inserted"
  /\ args.num_processes = 2
  /\ rollouts.done = <<FALSE, TRUE>>
  /\ rollouts.infos[1].keys = {"bad_transition"}
  /\ rollouts.infos[2].keys = {"episode"}
  /\ rollouts.inserted = [masks |-> <<1, 0>>, bad_masks |-> <<0, 1>>]
  /\ episode_rewards = <<800, rollouts.infos[2].r>>

(* C20: after every completed update "latest" exists and holds the         *)
(* parameters that update's agent.update produced. An update in which a    *)
(* milestone is due (line 308; with a save_dir always the last update)     *)
(* writes the milestone name instead and leaves "latest" absent or old.    *)
C20_LatestAlwaysFresh ==
  AtUpdateEnd =>
    /\ LatestName \in DOMAIN store
    /\ store[LatestName].model = actor_critic

====
